---- MODULE Spec2Model ----
(***************************************************************************)
(* A model of prow/cmd/splice/main.go: the splicer's local git workspace,  *)
(* findMergeable, makeBuildRefs, the job filters completedJobs,            *)
(* requiredPresubmits and neededPresubmits, and the loop of main.          *)
(*                                                                         *)
(* Commits are sequences of numbers.  <<0>> is the commit master has on    *)
(* the remote, <<n>> is the head commit of pull request n, and the merge   *)
(* commit that `git merge --no-ff pr/n` creates on top of commit c is      *)
(* c \o <<n>>.  The empty sequence is the empty string: what gitRef        *)
(* returns when rev-parse fails, and the value of a ref that does not      *)
(* exist.                                                                  *)
(***************************************************************************)
EXTENDS Integers, Sequences, FiniteSets, TLC

VARIABLES
    cooldown,      \* main: the cooldown counter
    maxBatchSize,  \* the -batch-size flag
    presubmits,    \* ca.Config().Presubmits[org/repo]
    jobs,          \* the ProwJobs the job backend holds, oldest first
    ws,            \* the splicer's repository in s.dir
    queue,         \* the PRs last given to findMergeable
    remote,        \* which PR branches conflict on the remote repository
    tick,          \* what the last operation did (history)
    decs,          \* cooldown decrements since the last submission step (history)
    faults         \* the calls of main's loop that failed so far (history)

vars == <<cooldown, maxBatchSize, presubmits, jobs, ws, queue, remote, tick, decs, faults>>

----------------------------------------------------------------------------
(* Bounds *)

NumPRs == 3

MaxQueue == 3

\* The failed calls (git, rev-parse, CreateProwJob) in one run of the loop.
MaxFaults == 1

----------------------------------------------------------------------------
(* Helpers *)

Range(s) == {s[i] : i \in 1..Len(s)}

\* The sequences over S of length at most n.
SeqsUpTo(S, n) == UNION {[1..k -> S] : k \in 0..n}

IsInjective(s) == \A i, j \in 1..Len(s) : s[i] = s[j] => i = j

\* s is a subsequence of t: the elements of s occur in t in the same
\* relative order.
RECURSIVE IsSubseq(_, _)
IsSubseq(s, t) ==
    IF s = <<>> THEN TRUE
    ELSE IF t = <<>> THEN FALSE
    ELSE IF Head(s) = Head(t) THEN IsSubseq(Tail(s), Tail(t))
    ELSE IsSubseq(s, Tail(t))

----------------------------------------------------------------------------
(* The remote repository and the submit queue *)

PRs == 101..(100 + NumPRs)

\* The lists getQueuedPRs can return: PR numbers, each at most once.
Queues == {q \in SeqsUpTo(PRs, MaxQueue) : IsInjective(q)}

NoSHA == <<>>

MasterSHA == <<0>>

HeadSHA(pr) == <<pr>>

\* The remote's content, as far as merging sees it: the PRs whose branch
\* conflicts with master itself, the pairs of PRs whose branches conflict
\* with each other, and the pairs <<a, pr>> where the branch of pr merges
\* only into a commit that holds the changes of a.
Contents(S) ==
    [base : SUBSET S, pairs : SUBSET {p \in SUBSET S : Cardinality(p) = 2}, needs : {{}}]

NoContent == [base |-> {}, pairs |-> {}, needs |-> {}]

\* The contents where each branch merges everywhere (0), nowhere (itself)
\* or only after one other PR.
OrderedContents(S) ==
    {[base |-> {}, pairs |-> {}, needs |-> {<<f[p], p>> : p \in {x \in S : f[x] # 0}}] :
        f \in [S -> S \cup {0}]}

\* The PRs merged into commit c, which is master or a merge on top of it.
MergedIn(c) == IF c = NoSHA THEN {} ELSE Range(Tail(c))

\* Whether merging the head of pr into commit c stops with a conflict.
Conflicts(content, c, pr) ==
    \/ pr \in content.base
    \/ \E a \in MergedIn(c) : {a, pr} \in content.pairs
    \/ \E n \in content.needs : n[2] = pr /\ n[1] \notin MergedIn(c)

----------------------------------------------------------------------------
(* The workspace: the repository makeSplicer creates with git init *)

InitWS ==
    [head    |-> "master",
     master  |-> NoSHA,
     pr      |-> [n \in PRs |-> NoSHA],
     batch   |-> NoSHA,
     merging |-> FALSE]

\* A reset that leaves a merge in progress as it is.
ResetHardKeeping(w) == w

\* git reset --hard: drops local changes and a merge in progress.
ResetHard(w) == [w EXCEPT !.merging = FALSE]

\* git checkout --orphan blank: HEAD moves to the unborn branch blank.
CheckoutOrphan(w) == [w EXCEPT !.head = "blank"]

\* git clean -fdx: removes untracked files; no ref changes.
Clean(w) == w

\* git fetch -f remote master:master pull/n/head:pr/n ...
Fetch(w, prs) ==
    [w EXCEPT !.master = MasterSHA,
              !.pr = [n \in PRs |->
                        IF n \in Range(prs) THEN HeadSHA(n) ELSE w.pr[n]]]

\* git checkout -B batch master
CheckoutBatch(w) == [w EXCEPT !.batch = w.master, !.head = "batch"]

SetupSteps == 6

\* The k-th git call of findMergeable's gitCalls list.
SetupStep(w, k, prs) ==
    CASE k = 1 -> ResetHard(w)
      [] k = 2 -> CheckoutOrphan(w)
      [] k = 3 -> ResetHard(w)
      [] k = 4 -> Clean(w)
      [] k = 5 -> Fetch(w, prs)
      [] OTHER -> CheckoutBatch(w)

\* gitCalls: the calls in order up to the first failure.  failAt is the
\* call that fails (0: none); a failed call leaves the repository as it was.
RECURSIVE gitCalls(_, _, _, _)
gitCalls(w, k, prs, failAt) ==
    IF k > SetupSteps THEN [ws |-> w, err |-> FALSE]
    ELSE IF k = failAt THEN [ws |-> w, err |-> TRUE]
    ELSE gitCalls(SetupStep(w, k, prs), k + 1, prs, failAt)

\* A merge that is tried against master alone, whatever was merged before.
MergeIntoMaster(w, content, pr) ==
    IF w.merging THEN [ws |-> w, err |-> TRUE]
    ELSE IF Conflicts(content, w.master, pr)
    THEN [ws |-> [w EXCEPT !.merging = TRUE], err |-> TRUE]
    ELSE [ws |-> [w EXCEPT !.batch = w.batch \o <<pr>>], err |-> FALSE]

\* git merge --no-ff --no-stat -m "merge #pr" pr/<pr> on the batch branch:
\* a merge commit on success, a merge in progress on conflict; git refuses
\* to merge while a merge is in progress.
Merge(w, content, pr) ==
    IF w.merging THEN [ws |-> w, err |-> TRUE]
    ELSE IF Conflicts(content, w.batch, pr)
    THEN [ws |-> [w EXCEPT !.merging = TRUE], err |-> TRUE]
    ELSE [ws |-> [w EXCEPT !.batch = w.batch \o <<pr>>], err |-> FALSE]

\* An abort that leaves the merge in progress.
MergeAbortKeeping(w) == w

\* git merge --abort
MergeAbort(w) == [w EXCEPT !.merging = FALSE]

\* A loop that ends at the first conflict.
RECURSIVE mergeLoopStopping(_, _, _, _, _, _)
mergeLoopStopping(w, prs, i, out, content, abortAt) ==
    IF i > Len(prs) THEN [ws |-> w, out |-> out, err |-> FALSE]
    ELSE LET m == Merge(w, content, prs[i]) IN
         IF m.err
         THEN IF i = abortAt
              THEN [ws |-> m.ws, out |-> <<>>, err |-> TRUE]
              ELSE [ws |-> MergeAbort(m.ws), out |-> out, err |-> FALSE]
         ELSE mergeLoopStopping(m.ws, prs, i + 1, Append(out, prs[i]), content, abortAt)

\* A loop that puts every accepted PR in front of the list.
RECURSIVE mergeLoopPrepending(_, _, _, _, _, _)
mergeLoopPrepending(w, prs, i, out, content, abortAt) ==
    IF i > Len(prs) THEN [ws |-> w, out |-> out, err |-> FALSE]
    ELSE LET m == Merge(w, content, prs[i]) IN
         IF m.err
         THEN IF i = abortAt
              THEN [ws |-> m.ws, out |-> <<>>, err |-> TRUE]
              ELSE mergeLoopPrepending(MergeAbort(m.ws), prs, i + 1, out, content, abortAt)
         ELSE mergeLoopPrepending(m.ws, prs, i + 1, <<prs[i]>> \o out, content, abortAt)

\* The loop of findMergeable over prs[i..]: out is the list accepted so
\* far.  abortAt is the candidate whose merge --abort fails (0: none).
RECURSIVE mergeLoop(_, _, _, _, _, _)
mergeLoop(w, prs, i, out, content, abortAt) ==
    IF i > Len(prs) THEN [ws |-> w, out |-> out, err |-> FALSE]
    ELSE LET m == Merge(w, content, prs[i]) IN
         IF m.err
         THEN IF i = abortAt
              THEN [ws |-> m.ws, out |-> <<>>, err |-> TRUE]
              ELSE mergeLoop(MergeAbort(m.ws), prs, i + 1, out, content, abortAt)
         ELSE mergeLoop(m.ws, prs, i + 1, Append(out, prs[i]), content, abortAt)

\* What can fail in one findMergeable call: nothing (0), the k-th call of
\* the gitCalls list (k), or the merge --abort of candidate i (SetupSteps + i).
Failures(prs) == 0..(SetupSteps + Len(prs))

findMergeable(w, prs, content, fail) ==
    LET setup == gitCalls(w, 1, prs, IF fail \in 1..SetupSteps THEN fail ELSE 0) IN
    IF setup.err THEN [ws |-> setup.ws, out |-> <<>>, err |-> TRUE]
    ELSE mergeLoop(setup.ws, prs, 1, <<>>, content,
                   IF fail > SetupSteps THEN fail - SetupSteps ELSE 0)

----------------------------------------------------------------------------
(* makeBuildRefs *)

OrgName == "kubernetes"

RepoName == "kubernetes"

\* The refs gitRef is asked for: 0 is master, n is pr/n.
RefValue(w, ref) == IF ref = 0 THEN w.master ELSE w.pr[ref]

\* gitRef: the output of rev-parse, or "" when the call fails.  failing is
\* the set of refs whose rev-parse call fails.
gitRef(w, ref, failing) == IF ref \in failing THEN NoSHA ELSE RefValue(w, ref)

\* The rev-parse calls that can fail in one makeBuildRefs call: none, or the
\* call for one ref.
RefFailures(prs) == {{}} \cup {{r} : r \in {0} \cup Range(prs)}

makeBuildRefs(w, org, repo, prs, failing) ==
    [Org     |-> org,
     Repo    |-> repo,
     BaseRef |-> "master",
     BaseSHA |-> gitRef(w, 0, failing),
     Pulls   |-> [i \in 1..Len(prs) |->
                    [Number |-> prs[i], SHA |-> gitRef(w, prs[i], failing)]]]

NoRefs == [Org |-> "", Repo |-> "", BaseRef |-> "", BaseSHA |-> NoSHA, Pulls |-> <<>>]

----------------------------------------------------------------------------
(* Job records and the filters of the job reconciler *)

BatchJob == "batch"

PresubmitJob == "presubmit"

SuccessState == "success"

FailureState == "failure"

TriggeredState == "triggered"

\* kube.Refs.String(): the canonical string of a batch descriptor, as the
\* list of its parts: org, repo, base ref, base SHA, then number and SHA of
\* every pull in order.
RECURSIVE PullsString(_)
PullsString(pulls) ==
    IF pulls = <<>> THEN <<>>
    ELSE <<Head(pulls).Number, Head(pulls).SHA>> \o PullsString(Tail(pulls))

RefsString(refs) ==
    <<refs.Org, refs.Repo, refs.BaseRef, refs.BaseSHA>> \o PullsString(refs.Pulls)

\* kube.ProwJob.Complete()
Complete(job) == job.complete

\* plank.NewProwJob(plank.BatchSpec(job, refs)): a batch job that has not
\* run yet.
NewBatchJob(job, refs) ==
    [Type     |-> BatchJob,
     Job      |-> job.Name,
     Context  |-> job.Context,
     Refs     |-> refs,
     complete |-> FALSE,
     State    |-> TriggeredState]

\* A filter that does not look at the state of a complete job.
RECURSIVE completedJobsAnyState(_, _)
completedJobsAnyState(currentJobs, refs) ==
    IF currentJobs = <<>> THEN <<>>
    ELSE LET job  == Head(currentJobs)
             rest == completedJobsAnyState(Tail(currentJobs), refs)
         IN  IF job.Type # BatchJob THEN rest
             ELSE IF ~Complete(job) THEN rest
             ELSE IF RefsString(job.Refs) # RefsString(refs) THEN rest
             ELSE <<job>> \o rest

\* A filter that compares the sets of PR numbers of the descriptors only.
RECURSIVE completedJobsSamePRs(_, _)
completedJobsSamePRs(currentJobs, refs) ==
    IF currentJobs = <<>> THEN <<>>
    ELSE LET job  == Head(currentJobs)
             rest == completedJobsSamePRs(Tail(currentJobs), refs)
         IN  IF job.Type # BatchJob THEN rest
             ELSE IF ~Complete(job) THEN rest
             ELSE IF job.State # SuccessState THEN rest
             ELSE IF {p.Number : p \in Range(job.Refs.Pulls)}
                        # {p.Number : p \in Range(refs.Pulls)} THEN rest
             ELSE <<job>> \o rest

RECURSIVE completedJobs(_, _)
completedJobs(currentJobs, refs) ==
    IF currentJobs = <<>> THEN <<>>
    ELSE LET job  == Head(currentJobs)
             rest == completedJobs(Tail(currentJobs), refs)
         IN  IF job.Type # BatchJob THEN rest
             ELSE IF ~Complete(job) THEN rest
             ELSE IF job.State # SuccessState THEN rest
             ELSE IF RefsString(job.Refs) # RefsString(refs) THEN rest
             ELSE <<job>> \o rest

\* A filter that keeps the specs whose report is skipped.
RECURSIVE requiredPresubmitsAlwaysRun(_)
requiredPresubmitsAlwaysRun(ps) ==
    IF ps = <<>> THEN <<>>
    ELSE LET job  == Head(ps)
             rest == requiredPresubmitsAlwaysRun(Tail(ps))
         IN  IF ~job.AlwaysRun THEN rest ELSE <<job>> \o rest

RECURSIVE requiredPresubmits(_)
requiredPresubmits(ps) ==
    IF ps = <<>> THEN <<>>
    ELSE LET job  == Head(ps)
             rest == requiredPresubmits(Tail(ps))
         IN  IF ~job.AlwaysRun THEN rest
             ELSE IF job.SkipReport THEN rest
             ELSE <<job>> \o rest

\* The map skippable of neededPresubmits, as the set of its keys.
Skippable(currentJobs, refs) ==
    {job.Context : job \in Range(completedJobs(currentJobs, refs))}

RECURSIVE neededFrom(_, _)
neededFrom(required, skippable) ==
    IF required = <<>> THEN <<>>
    ELSE LET job  == Head(required)
             rest == neededFrom(Tail(required), skippable)
         IN  IF job.Context \in skippable THEN rest ELSE <<job>> \o rest

neededPresubmits(ps, currentJobs, refs) ==
    neededFrom(requiredPresubmits(ps), Skippable(currentJobs, refs))

----------------------------------------------------------------------------
(* The record of the last operation *)

NoTick ==
    [op         |-> "none",
     err        |-> FALSE,
     injected   |-> FALSE,   \* a git call of findMergeable was set to fail
     listed     |-> <<>>,    \* the job listing the operation read
     out        |-> <<>>,    \* what findMergeable returned
     batchPRs   |-> <<>>,    \* the list after the trim
     refs       |-> NoRefs,  \* what makeBuildRefs returned
     completed  |-> <<>>,    \* what completedJobs returned
     needed     |-> <<>>,    \* what neededPresubmits returned
     attempted  |-> <<>>,    \* the jobs given to CreateProwJob
     created    |-> <<>>,    \* the positions in attempted whose call succeeded
     failed     |-> {},      \* the positions in attempted whose call failed
     content    |-> NoContent,  \* the remote findMergeable met
     mergingAt  |-> FALSE,   \* a merge was in progress when the tick began
     inFlight   |-> FALSE,   \* the listing held an incomplete batch job
     cooldownAt |-> 0,       \* the cooldown counter when the tick began
     decsAt     |-> -1]

----------------------------------------------------------------------------
(* findMergeable and makeBuildRefs on their own: every queue, every       *)
(* remote content, every failure.                                         *)

SampleConfig ==
    << [Name |-> "unit",  Context |-> "A", AlwaysRun |-> TRUE,  SkipReport |-> FALSE],
       [Name |-> "e2e",   Context |-> "B", AlwaysRun |-> TRUE,  SkipReport |-> FALSE],
       [Name |-> "bench", Context |-> "C", AlwaysRun |-> FALSE, SkipReport |-> FALSE],
       [Name |-> "canary", Context |-> "D", AlwaysRun |-> TRUE, SkipReport |-> TRUE] >>

InitMerge ==
    /\ cooldown = 0
    /\ maxBatchSize = 5
    /\ presubmits = SampleConfig
    /\ jobs = <<>>
    /\ ws = InitWS
    /\ queue \in Queues
    /\ remote \in Contents(Range(queue))
    /\ tick = NoTick
    /\ decs = -1
    /\ faults = 0

\* s.findMergeable(remote, queue)
FindMergeable ==
    \E fail \in Failures(queue) :
        LET r == findMergeable(ws, queue, remote, fail) IN
        /\ ws' = r.ws
        /\ tick' = [NoTick EXCEPT !.op = "findMergeable", !.err = r.err,
                                  !.injected = (fail # 0), !.out = r.out]
        /\ UNCHANGED <<cooldown, maxBatchSize, presubmits, jobs, queue, remote, decs, faults>>

\* s.makeBuildRefs(org, repo, prs) on the list findMergeable returned
MakeBuildRefs ==
    /\ tick.op = "findMergeable"
    /\ ~tick.err
    /\ \E failing \in RefFailures(tick.out) :
        tick' = [tick EXCEPT !.op = "makeBuildRefs",
                             !.batchPRs = tick.out,
                             !.refs = makeBuildRefs(ws, OrgName, RepoName, tick.out, failing)]
    /\ UNCHANGED <<cooldown, maxBatchSize, presubmits, jobs, ws, queue, remote, decs, faults>>

NextMerge == FindMergeable \/ MakeBuildRefs

SpecMerge == InitMerge /\ [][NextMerge]_vars

----------------------------------------------------------------------------
(* completedJobs and neededPresubmits on their own *)

MaxJobs == 2

MaxSpecs == 2

Contexts == {"A", "B"}

\* The batch descriptor of pulls on top of base.
Descriptor(base, pulls) ==
    [Org |-> OrgName, Repo |-> RepoName, BaseRef |-> "master",
     BaseSHA |-> base, Pulls |-> pulls]

Pull(n, sha) == [Number |-> n, SHA |-> sha]

\* The descriptor of PRs 101 and 102, and the descriptors that differ from
\* it in one way: the order of the pulls, one PR, one head SHA, the base SHA.
TargetRefs  == Descriptor(MasterSHA, <<Pull(101, <<101>>), Pull(102, <<102>>)>>)

OrderRefs   == Descriptor(MasterSHA, <<Pull(102, <<102>>), Pull(101, <<101>>)>>)

OtherPRRefs == Descriptor(MasterSHA, <<Pull(101, <<101>>), Pull(103, <<103>>)>>)

HeadRefs    == Descriptor(MasterSHA, <<Pull(101, <<101>>), Pull(102, <<102, 102>>)>>)

BaseRefs    == Descriptor(<<0, 0>>, <<Pull(101, <<101>>), Pull(102, <<102>>)>>)

RefsVariants == {TargetRefs, OrderRefs, OtherPRRefs, HeadRefs, BaseRefs}

\* Job records of every type, completion and state.
AnyJobs ==
    [Type     : {BatchJob, PresubmitJob},
     Job      : {"unit"},
     Context  : Contexts,
     Refs     : {TargetRefs, OrderRefs},
     complete : BOOLEAN,
     State    : {SuccessState, FailureState, TriggeredState}]

\* Batch jobs that completed with success, for every descriptor.
PassedJobs ==
    [Type     : {BatchJob},
     Job      : {"unit"},
     Context  : Contexts,
     Refs     : RefsVariants,
     complete : {TRUE},
     State    : {SuccessState}]

PresubmitSpecs ==
    [Name : {"unit"}, Context : Contexts, AlwaysRun : BOOLEAN, SkipReport : BOOLEAN]

InitFilter(jobLists, configs, targets) ==
    /\ cooldown = 0
    /\ maxBatchSize = 5
    /\ presubmits \in configs
    /\ jobs \in jobLists
    /\ ws = InitWS
    /\ queue = <<>>
    /\ remote = NoContent
    /\ \E refs \in targets : tick = [NoTick EXCEPT !.refs = refs]
    /\ decs = -1
    /\ faults = 0

\* neededPresubmits(presubmits, currentJobs, refs), and the list
\* completedJobs gives it.
Reconcile ==
    /\ tick' = [tick EXCEPT !.op = "neededPresubmits",
                            !.listed = jobs,
                            !.completed = completedJobs(jobs, tick.refs),
                            !.needed = neededPresubmits(presubmits, jobs, tick.refs)]
    /\ UNCHANGED <<cooldown, maxBatchSize, presubmits, jobs, ws, queue, remote, decs, faults>>

NextFilter == Reconcile

\* Every job list, one configuration.
SpecCompleted ==
    /\ InitFilter(SeqsUpTo(AnyJobs, MaxJobs), {SampleConfig}, {TargetRefs, OrderRefs})
    /\ [][NextFilter]_vars

\* Every configuration, against passed jobs of every descriptor.
SpecNeeded ==
    /\ InitFilter(SeqsUpTo(PassedJobs, MaxJobs), SeqsUpTo(PresubmitSpecs, MaxSpecs),
                  {TargetRefs})
    /\ [][NextFilter]_vars

----------------------------------------------------------------------------
(* The loop of main: one action per way through an iteration *)

CooldownTicks == 5

\* A collection of the batch jobs that are complete.
RECURSIVE RunningComplete(_)
RunningComplete(currentJobs) ==
    IF currentJobs = <<>> THEN <<>>
    ELSE LET job  == Head(currentJobs)
             rest == RunningComplete(Tail(currentJobs))
         IN  IF job.Type # BatchJob THEN rest
             ELSE IF Complete(job) THEN <<job.Job>> \o rest
             ELSE rest

\* The jobs main collects in running: batch jobs that are not complete.
RECURSIVE Running(_)
Running(currentJobs) ==
    IF currentJobs = <<>> THEN <<>>
    ELSE LET job  == Head(currentJobs)
             rest == Running(Tail(currentJobs))
         IN  IF job.Type # BatchJob THEN rest
             ELSE IF ~Complete(job) THEN <<job.Job>> \o rest
             ELSE rest

\* A trim that drops the first entry.
TrimAfterFirst(batchPRs, max) ==
    IF Len(batchPRs) > max THEN SubSeq(batchPRs, 2, max + 1) ELSE batchPRs

\* A trim that keeps the last max entries.
TrimLast(batchPRs, max) ==
    IF Len(batchPRs) > max
    THEN SubSeq(batchPRs, Len(batchPRs) - max + 1, Len(batchPRs))
    ELSE batchPRs

\* batchPRs[:maxBatchSize] when batchPRs is longer than maxBatchSize
Trim(batchPRs, max) ==
    IF Len(batchPRs) > max THEN SubSeq(batchPRs, 1, max) ELSE batchPRs

\* A threshold that lets a single PR through.
TooFewNone(batchPRs) == Len(batchPRs) <= 0

\* len(batchPRs) <= 1: no batch is started for a single PR.
TooFew(batchPRs) == Len(batchPRs) <= 1

\* The queue and the remote contents the loop is run on: PRs 102, 101 and
\* 103 queued in that order, and for each of them whether its merge
\* conflicts.
LoopQueues == {<<102, 101, 103>>}

LoopContents(q) == [base : SUBSET Range(q), pairs : {{}}, needs : {{}}]

\* The contents under which the failure fail shows: a call of the gitCalls
\* list fails whatever the content is, the merge --abort of a candidate only
\* when its merge conflicts.
FailingContents(q, fail) ==
    IF fail <= SetupSteps THEN {NoContent}
    ELSE {c \in LoopContents(q) : q[fail - SetupSteps] \in c.base}

\* What the tick began with.
Began(op) ==
    [NoTick EXCEPT !.op = op,
                   !.inFlight = \E job \in Range(jobs) :
                                    job.Type = BatchJob /\ ~job.complete,
                   !.cooldownAt = cooldown,
                   !.decsAt = decs]

Init ==
    /\ cooldown = 0
    /\ maxBatchSize \in {1, 2, 5}
    /\ presubmits = SampleConfig
    /\ jobs = <<>>
    /\ ws = InitWS
    /\ queue = <<>>
    /\ remote = NoContent
    /\ tick = NoTick
    /\ decs = -1
    /\ faults = 0

\* kc.ListProwJobs fails.
TickListError ==
    /\ tick' = [NoTick EXCEPT !.op = "listError", !.err = TRUE,
                              !.cooldownAt = cooldown, !.decsAt = decs]
    /\ UNCHANGED <<cooldown, maxBatchSize, presubmits, jobs, ws, queue, remote, decs, faults>>

\* A batch job is still running.
TickWaiting ==
    /\ Running(jobs) # <<>>
    /\ tick' = Began("waiting")
    /\ UNCHANGED <<cooldown, maxBatchSize, presubmits, jobs, ws, queue, remote, decs, faults>>

\* A cooldown tick that leaves the counter as it is.
TickCooldownStuck ==
    /\ Running(jobs) = <<>>
    /\ cooldown > 0
    /\ tick' = Began("cooldown")
    /\ UNCHANGED <<cooldown, maxBatchSize, presubmits, jobs, ws, queue, remote, decs, faults>>

\* A decrement that does not wait for the running batch jobs.
TickCooldownInFlight ==
    /\ cooldown > 0
    /\ cooldown' = cooldown - 1
    /\ decs' = decs + 1
    /\ tick' = Began("cooldown")
    /\ UNCHANGED <<maxBatchSize, presubmits, jobs, ws, queue, remote, faults>>

\* The cooldown counter is positive.
TickCooldown ==
    /\ Running(jobs) = <<>>
    /\ cooldown > 0
    /\ cooldown' = cooldown - 1
    /\ decs' = decs + 1
    /\ tick' = Began("cooldown")
    /\ UNCHANGED <<maxBatchSize, presubmits, jobs, ws, queue, remote, faults>>

\* A tick that goes on whatever the cooldown counter is.
PastInFlightCheck == Running(jobs) = <<>>

\* The tick passed the in-flight check and the cooldown check.
PastCooldown == Running(jobs) = <<>> /\ ~(cooldown > 0)

\* A failed queue fetch that starts a cooldown.
TickQueueErrorCooling ==
    /\ PastCooldown
    /\ tick' = [Began("queueError") EXCEPT !.err = TRUE]
    /\ cooldown' = CooldownTicks
    /\ UNCHANGED <<maxBatchSize, presubmits, jobs, ws, queue, remote, decs, faults>>

\* getQueuedPRs fails.
TickQueueError ==
    /\ PastCooldown
    /\ tick' = [Began("queueError") EXCEPT !.err = TRUE]
    /\ UNCHANGED <<cooldown, maxBatchSize, presubmits, jobs, ws, queue, remote, decs, faults>>

\* The queue is empty.
TickQueueEmpty ==
    /\ PastCooldown
    /\ tick' = Began("queueEmpty")
    /\ UNCHANGED <<cooldown, maxBatchSize, presubmits, jobs, ws, queue, remote, decs, faults>>

\* findMergeable returns an error.
TickMergeError ==
    /\ PastCooldown
    /\ faults < MaxFaults
    /\ \E q \in LoopQueues : \E fail \in Failures(q) \ {0} :
       \E content \in FailingContents(q, fail) :
       \E r \in {findMergeable(ws, q, content, fail)} :
        /\ r.err
        /\ queue' = q
        /\ ws' = r.ws
        /\ tick' = [Began("mergeError") EXCEPT !.err = TRUE]
    /\ faults' = faults + 1
    /\ UNCHANGED <<cooldown, maxBatchSize, presubmits, jobs, remote, decs>>

\* findMergeable accepts at most one PR.
TickTooFew ==
    /\ PastCooldown
    /\ \E q \in LoopQueues : \E content \in LoopContents(q) :
       \E r \in {findMergeable(ws, q, content, 0)} :
        /\ TooFew(r.out)
        /\ queue' = q
        /\ ws' = r.ws
        /\ tick' = [Began("tooFew") EXCEPT !.out = r.out,
                                           !.content = content,
                                           !.mergingAt = ws.merging]
    /\ UNCHANGED <<cooldown, maxBatchSize, presubmits, jobs, remote, decs, faults>>

\* The jobs kc.CreateProwJob is called with, and those of them it creates:
\* failed is the set of positions whose call fails.
Attempted(needed, refs) == [i \in 1..Len(needed) |-> NewBatchJob(needed[i], refs)]

\* A loop over the needed jobs that ends at the first failed call.
CreatedJobsUntilFailure(attempted, failed) ==
    SelectSeq([i \in 1..Len(attempted) |-> [at |-> i, job |-> attempted[i]]],
              LAMBDA c : \A k \in 1..c.at : k \notin failed)

CreatedJobs(attempted, failed) ==
    SelectSeq([i \in 1..Len(attempted) |-> [at |-> i, job |-> attempted[i]]],
              LAMBDA c : c.at \notin failed)

\* The tick reaches the submission step: trim, makeBuildRefs,
\* neededPresubmits, one CreateProwJob per needed spec, cooldown = 5.
TickSubmit ==
    /\ PastCooldown
    /\ \E q \in LoopQueues : \E content \in LoopContents(q) :
       \E r \in {findMergeable(ws, q, content, 0)} :
        /\ ~TooFew(r.out)
        /\ \E batchPRs \in {Trim(r.out, maxBatchSize)} :
           \E failing \in RefFailures(batchPRs) :
           \E refs \in {makeBuildRefs(r.ws, OrgName, RepoName, batchPRs, failing)} :
           \E needed \in {neededPresubmits(presubmits, jobs, refs)} :
           \E attempted \in {Attempted(needed, refs)} :
           \E failed \in SUBSET (1..Len(needed)) :
           \E created \in {CreatedJobs(attempted, failed)} :
            /\ Len(jobs) + Len(created) <= MaxJobs
            /\ faults + Cardinality(failing) + Cardinality(failed) <= MaxFaults
            /\ faults' = faults + Cardinality(failing) + Cardinality(failed)
            /\ jobs' = jobs \o [i \in 1..Len(created) |-> created[i].job]
            /\ queue' = q
            /\ ws' = r.ws
            /\ tick' = [Began("submit") EXCEPT
                           !.out = r.out,
                           !.batchPRs = batchPRs,
                           !.refs = refs,
                           !.completed = completedJobs(jobs, refs),
                           !.needed = needed,
                           !.attempted = attempted,
                           !.failed = failed,
                           !.content = content,
                           !.mergingAt = ws.merging,
                           !.created = [i \in 1..Len(created) |-> created[i].at]]
    /\ cooldown' = CooldownTicks
    /\ decs' = 0
    /\ UNCHANGED <<maxBatchSize, presubmits, remote>>

(* The job backend *)

\* A job that is not complete finishes, with success or with failure.
JobFinishes ==
    \E i \in 1..Len(jobs) : \E state \in {SuccessState, FailureState} :
        /\ ~jobs[i].complete
        /\ jobs' = [jobs EXCEPT ![i].complete = TRUE, ![i].State = state]
        /\ tick' = [NoTick EXCEPT !.op = "jobFinishes"]
        /\ UNCHANGED <<cooldown, maxBatchSize, presubmits, ws, queue, remote, decs, faults>>

\* Another component starts a job that is not a batch job: the presubmit
\* of one PR.
PresubmitTriggered ==
    /\ jobs = <<>>
    /\ jobs' = Append(jobs,
                 [Type     |-> PresubmitJob,
                  Job      |-> "unit",
                  Context  |-> "A",
                  Refs     |-> Descriptor(MasterSHA, <<Pull(101, HeadSHA(101))>>),
                  complete |-> FALSE,
                  State    |-> TriggeredState])
    /\ tick' = [NoTick EXCEPT !.op = "presubmitTriggered"]
    /\ UNCHANGED <<cooldown, maxBatchSize, presubmits, ws, queue, remote, decs, faults>>

Next ==
    \/ TickListError
    \/ TickWaiting
    \/ TickCooldown
    \/ TickQueueError
    \/ TickQueueEmpty
    \/ TickMergeError
    \/ TickTooFew
    \/ TickSubmit
    \/ JobFinishes
    \/ PresubmitTriggered

Spec == Init /\ [][Next]_vars

----------------------------------------------------------------------------
(* Properties of findMergeable (SpecMerge) *)

Returned == tick.op = "findMergeable" /\ ~tick.err

\* C1: a successful return of findMergeable is a subsequence of the list it
\* was given: every returned PR is in the input, the returned PRs keep their
\* input order, and there are between 0 and N of them.
C1_OutputIsSubsequence ==
    Returned =>
        /\ Range(tick.out) \subseteq Range(queue)
        /\ IsSubseq(tick.out, queue)
        /\ Len(tick.out) \in 0..Len(queue)

\* A return that dropped the first and kept two later candidates.
C1_Witness ==
    /\ Returned
    /\ Len(queue) = 3
    /\ tick.out = <<queue[2], queue[3]>>

\* The PRs of out that stand before position i of the list q.
AcceptedBefore(out, q, i) ==
    SelectSeq(out, LAMBDA pr : \E k \in 1..(i - 1) : q[k] = pr)

\* Candidate i follows an accepted PR and its branch conflicts with master
\* plus the PRs accepted before it.
ConflictsAfterAccepted(i) ==
    LET before == AcceptedBefore(tick.out, queue, i) IN
    /\ before # <<>>
    /\ Conflicts(remote, MasterSHA \o before, queue[i])

\* C2: a candidate that follows an accepted PR and conflicts with the
\* integration branch as it is after the PRs accepted before it is not in
\* the output, also when it merges cleanly into master alone.
C2_GreedyExclusion ==
    Returned =>
        \A i \in 1..Len(queue) :
            ConflictsAfterAccepted(i) => queue[i] \notin Range(tick.out)

\* The last of three candidates conflicts only with the first, is clean
\* against master and against the second, and is left out.
C2_Witness ==
    /\ Returned
    /\ Len(queue) = 3
    /\ ConflictsAfterAccepted(3)
    /\ ~Conflicts(remote, MasterSHA, queue[3])
    /\ ~Conflicts(remote, MasterSHA \o <<queue[2]>>, queue[3])
    /\ tick.out = <<queue[1], queue[2]>>

Built == tick.op = "makeBuildRefs"

PullNumbers(refs) == [i \in 1..Len(refs.Pulls) |-> refs.Pulls[i].Number]

\* C10: the descriptor lists the accepted PRs in queue order and records
\* for each the head commit its pr/<number> branch had after the fetch,
\* never a merge commit; after findMergeable the master and pr/<number>
\* refs are what the fetch made them.
C10_DescriptorRecordsFetchedHeads ==
    /\ Returned =>
        /\ ws.master = MasterSHA
        /\ \A pr \in Range(queue) : ws.pr[pr] = HeadSHA(pr)
    /\ Built =>
        /\ PullNumbers(tick.refs) = tick.batchPRs
        /\ IsSubseq(tick.batchPRs, queue)
        /\ \A i \in 1..Len(tick.refs.Pulls) :
               tick.refs.Pulls[i].SHA = HeadSHA(tick.refs.Pulls[i].Number)

----------------------------------------------------------------------------
(* Properties of the filters (SpecCompleted, SpecNeeded) *)

Reconciled == tick.op = "neededPresubmits"

Counted(job, refs) ==
    /\ job.Type = BatchJob
    /\ job.complete
    /\ job.State = SuccessState
    /\ RefsString(job.Refs) = RefsString(refs)

\* C4: completedJobs returns, in input order, exactly the records that are
\* batch type, complete, in success state and carry the target descriptor's
\* canonical string.
C4_CompletedExactly ==
    Reconciled =>
        tick.completed = SelectSeq(jobs, LAMBDA job : Counted(job, tick.refs))

\* Two records, the first failing one condition only and the second meeting
\* all four: the second alone is returned.
C4_Witness ==
    /\ Reconciled
    /\ Len(jobs) = 2
    /\ jobs[1].Type = BatchJob /\ jobs[1].complete /\ jobs[1].State = SuccessState
    /\ jobs[1].Refs # tick.refs
    /\ Counted(jobs[2], tick.refs)
    /\ tick.completed = <<jobs[2]>>

Required(spec) == spec.AlwaysRun /\ ~spec.SkipReport

\* C3: neededPresubmits returns, in configuration order, exactly the specs
\* with alwaysRun and without skipReport whose context is not the context
\* of a record completedJobs returned.
C3_NeededExactly ==
    Reconciled =>
        tick.needed =
            SelectSeq(presubmits,
                LAMBDA spec : /\ Required(spec)
                              /\ \A job \in Range(tick.completed) :
                                     job.Context # spec.Context)

\* Required specs A and B, one passed batch job with context A and the
\* same descriptor: B alone is needed.
C3_Witness ==
    /\ Reconciled
    /\ Len(presubmits) = 2
    /\ presubmits[1].Context = "A" /\ Required(presubmits[1])
    /\ presubmits[2].Context = "B" /\ Required(presubmits[2])
    /\ Len(jobs) = 1
    /\ jobs[1].Context = "A" /\ jobs[1].Refs = tick.refs
    /\ tick.needed = <<presubmits[2]>>

\* C9: when the descriptor differs from the descriptor of every job record
\* (in the base SHA, a PR, a head SHA or the order of the pulls), no
\* completion counts and every required spec is needed.
C9_DifferentDescriptorRunsAll ==
    (Reconciled /\ \A job \in Range(jobs) : job.Refs # tick.refs) =>
        /\ tick.completed = <<>>
        /\ tick.needed = SelectSeq(presubmits, Required)

\* Passed jobs for both contexts whose descriptors have the same PRs in
\* another order and another head SHA: both required specs are needed.
C9_Witness ==
    /\ Reconciled
    /\ Len(jobs) = 2
    /\ jobs[1].Refs = OrderRefs /\ jobs[1].Context = "A"
    /\ jobs[2].Refs = HeadRefs /\ jobs[2].Context = "B"
    /\ Len(presubmits) = 2
    /\ tick.needed = presubmits
    /\ presubmits[1].Context = "A" /\ presubmits[2].Context = "B"

----------------------------------------------------------------------------
(* Properties of the loop (Spec) *)

\* The ticks that went past the cooldown check: they fetch the queue, and
\* the later ones compose a batch and submit its jobs.
ComposeOps == {"queueError", "queueEmpty", "mergeError", "tooFew", "submit"}

InFlight(job) == job.Type = BatchJob /\ ~job.complete

\* C5: single-flight. The batch jobs that are not complete all carry the
\* same descriptor, and no tick whose listing holds an incomplete batch job
\* fetches the queue, composes a batch or submits a job.
C5_SingleFlight ==
    /\ \A a, b \in Range(jobs) : (InFlight(a) /\ InFlight(b)) => a.Refs = b.Refs
    /\ tick.op \in ComposeOps => ~tick.inFlight

\* Two jobs of one batch are in flight and the tick stayed idle on them.
C5_Witness ==
    /\ tick.op = "waiting"
    /\ tick.inFlight
    /\ Len(jobs) = 2
    /\ InFlight(jobs[1]) /\ InFlight(jobs[2])
    /\ jobs[1].Refs = jobs[2].Refs

\* C6: cooldown. A tick fetches the queue only when no tick has reached the
\* submission step yet or the counter was decremented 5 times since the
\* last one that did, and each decrement is a tick that passed the
\* in-flight check; the counter is 5 less the decrements made.
C6_Cooldown ==
    /\ tick.op \in ComposeOps => tick.decsAt \in {-1, 5}
    /\ tick.op = "cooldown" => ~tick.inFlight /\ tick.decsAt \in 0..4
    /\ decs >= 0 => cooldown = 5 - decs

\* A second batch is composed, 5 decrements after the first.
C6_Witness ==
    /\ tick.op = "submit"
    /\ tick.decsAt = 5
    /\ tick.cooldownAt = 0
    /\ cooldown = 5

\* C7: a tick whose findMergeable accepts 0 or 1 PR creates no job and
\* leaves the cooldown counter as it was.
C7_TooFewSubmitsNothing ==
    [][(tick'.op \in {"tooFew", "submit"} /\ Len(tick'.out) <= 1) =>
           /\ tick'.attempted = <<>>
           /\ jobs' = jobs
           /\ cooldown' = cooldown]_vars

\* One PR was accepted: nothing was given to CreateProwJob and the
\* cooldown is what it was when the tick began.
C7_Witness ==
    /\ tick.op = "tooFew"
    /\ Len(tick.out) = 1
    /\ tick.attempted = <<>>
    /\ cooldown = tick.cooldownAt

\* C8: the batch submitted is the first maxBatchSize accepted PRs in their
\* order when more were accepted, and the accepted list unchanged
\* otherwise; the descriptor of every job of the tick lists its PRs.
C8_TrimKeepsFirst ==
    tick.op = "submit" =>
        /\ Len(tick.out) > maxBatchSize =>
               tick.batchPRs = SubSeq(tick.out, 1, maxBatchSize)
        /\ Len(tick.out) <= maxBatchSize => tick.batchPRs = tick.out
        /\ PullNumbers(tick.refs) = tick.batchPRs
        /\ \A i \in 1..Len(tick.attempted) : tick.attempted[i].Refs = tick.refs

\* Three PRs accepted with a maximum of 2: jobs are created for the
\* first two.
C8_Witness ==
    /\ tick.op = "submit"
    /\ maxBatchSize = 2
    /\ tick.out = <<102, 101, 103>>
    /\ PullNumbers(tick.refs) = <<102, 101>>
    /\ tick.created # <<>>

Unresolved(refs) ==
    \/ refs.BaseSHA = NoSHA
    \/ \E i \in 1..Len(refs.Pulls) : refs.Pulls[i].SHA = NoSHA

\* C11: a tick whose descriptor has a base or pull SHA that did not resolve
\* gives no job to CreateProwJob.
C11_UnresolvedRefAborts ==
    (tick.op = "submit" /\ Unresolved(tick.refs)) => tick.attempted = <<>>

----------------------------------------------------------------------------
(* Properties of findMergeable's handling of conflicts (SpecMerge) *)

\* findMergeable was called and no git call was set to fail.
NoGitFailure == tick.op = "findMergeable" /\ ~tick.injected

\* Candidate i conflicts with master plus the PRs accepted before it.
ConflictsAt(i) ==
    Conflicts(remote, MasterSHA \o AcceptedBefore(tick.out, queue, i), queue[i])

\* C12: when no git call other than a conflicting merge fails,
\* findMergeable returns without error, and a candidate is left out exactly
\* when its own merge conflicts: every candidate after a conflict is still
\* tried.
C12_ConflictIsNotAnError ==
    NoGitFailure =>
        /\ ~tick.err
        /\ \A i \in 1..Len(queue) :
               queue[i] \notin Range(tick.out) <=> ConflictsAt(i)

\* The first of three candidates conflicts with master and the other two
\* are accepted.
C12_Witness ==
    /\ NoGitFailure
    /\ ~tick.err
    /\ Len(queue) = 3
    /\ ConflictsAt(1)
    /\ tick.out = <<queue[2], queue[3]>>

\* C13: after findMergeable returns, the batch branch is master plus the
\* accepted PRs and no merge is in progress: an aborted merge left nothing
\* behind.  For queue [101, 102, 103] where 102 conflicts after 101 and 103
\* is clean after 101, the accepted list is [101, 103].
C13_AbortRestoresBranch ==
    Returned =>
        /\ ws.batch = MasterSHA \o tick.out
        /\ ~ws.merging
        /\ ws.head = "batch"
        /\ (/\ queue = <<101, 102, 103>>
            /\ ~Conflicts(remote, MasterSHA, 101)
            /\ Conflicts(remote, MasterSHA \o <<101>>, 102)
            /\ ~Conflicts(remote, MasterSHA \o <<101>>, 103))
           => tick.out = <<101, 103>>

\* The scenario: 102 conflicts with 101 only, and [101, 103] is returned.
C13_Witness ==
    /\ Returned
    /\ queue = <<101, 102, 103>>
    /\ ~Conflicts(remote, MasterSHA, 102)
    /\ Conflicts(remote, MasterSHA \o <<101>>, 102)
    /\ tick.out = <<101, 103>>
    /\ ws.batch = <<0, 101, 103>>

----------------------------------------------------------------------------
(* Properties of the loop's error handling (Spec) *)

Submitted == tick.op = "submit"

\* The jobs the tick added to the job backend.
AddedJobs == SubSeq(jobs, Len(jobs) - Len(tick.created) + 1, Len(jobs))

\* C14: in a tick that reaches the submission step, CreateProwJob is called
\* once for every needed spec, every call that does not fail creates its
\* job whatever calls failed before it, and the cooldown is 5 afterwards.
C14_CreateFailureDoesNotBlock ==
    Submitted =>
        /\ Len(tick.attempted) = Len(tick.needed)
        /\ \A i \in 1..Len(tick.needed) :
               /\ tick.attempted[i].Job = tick.needed[i].Name
               /\ tick.attempted[i].Refs = tick.refs
        /\ tick.created =
               SelectSeq([i \in 1..Len(tick.needed) |-> i],
                         LAMBDA i : i \notin tick.failed)
        /\ AddedJobs = [i \in 1..Len(tick.created) |-> tick.attempted[tick.created[i]]]
        /\ cooldown = 5

\* The first of two create calls failed and the second created its job.
C14_Witness ==
    /\ Submitted
    /\ Len(tick.needed) = 2
    /\ tick.failed = {1}
    /\ tick.created = <<2>>
    /\ AddedJobs = <<tick.attempted[2]>>
    /\ cooldown = 5

\* C15: a tick whose queue fetch fails leaves the workspace, the jobs and
\* the cooldown counter as they were, and the checks before the fetch pass
\* again afterwards, so the next tick fetches again.
C15_QueueErrorMutatesNothing ==
    [][tick'.op = "queueError" =>
           /\ ws' = ws
           /\ jobs' = jobs
           /\ cooldown' = cooldown
           /\ queue' = queue
           /\ PastCooldown']_vars

\* The fetch failed in a tick after an earlier tick had fetched and
\* submitted a batch; the jobs and the workspace of that batch are still
\* there.
C15_Witness ==
    /\ tick.op = "queueError"
    /\ tick.err
    /\ tick.decsAt = 5
    /\ cooldown = 0
    /\ jobs # <<>>
    /\ ws.head = "batch"
    /\ PastCooldown

\* What findMergeable returns, and the workspace it leaves, for the tick's
\* queue and remote on the repository makeSplicer created.
OnFreshWorkspace(q, content) == findMergeable(InitWS, q, content, 0)

\* C16: a tick in which a git call of findMergeable fails creates no job
\* and leaves the cooldown counter as it was; and whatever an earlier tick
\* left in the workspace, a findMergeable call that succeeds accepts the PRs
\* it accepts on a fresh workspace and leaves the workspace it leaves there.
C16_FailedCompositionLeavesNoTrace ==
    [][/\ tick'.op = "mergeError" =>
              /\ tick'.err
              /\ jobs' = jobs
              /\ cooldown' = cooldown
       /\ tick'.op \in {"tooFew", "submit"} =>
              /\ tick'.out = OnFreshWorkspace(queue', tick'.content).out
              /\ ws' = OnFreshWorkspace(queue', tick'.content).ws]_vars

\* A tick began with a merge in progress, left by a failed merge --abort,
\* and accepted all three PRs.
C16_Witness ==
    /\ Submitted
    /\ tick.mergingAt
    /\ faults = 1
    /\ tick.out = <<102, 101, 103>>
    /\ ~ws.merging

\* C17: every descriptor for which the loop gives a job to CreateProwJob
\* has at least two pulls, whatever the maximum batch size is.
C17_BatchHasTwoPulls ==
    (Submitted /\ tick.attempted # <<>>) => Len(tick.refs.Pulls) >= 2

----------------------------------------------------------------------------
(* The composition of one batch: findMergeable, the size check, the trim   *)
(* and makeBuildRefs with no failing call, on every queue and on remotes   *)
(* where a branch can need another PR to merge.                            *)

InitBatch ==
    /\ cooldown = 0
    /\ maxBatchSize \in {1, 2, 5}
    /\ presubmits = SampleConfig
    /\ jobs = <<>>
    /\ ws = InitWS
    /\ queue \in Queues
    /\ remote \in OrderedContents(Range(queue))
    /\ tick = NoTick
    /\ decs = -1
    /\ faults = 0

\* findMergeable accepts at most one PR.
ComposeTooFew ==
    /\ \E r \in {findMergeable(ws, queue, remote, 0)} :
        /\ TooFew(r.out)
        /\ ws' = r.ws
        /\ tick' = [NoTick EXCEPT !.op = "tooFew", !.out = r.out, !.content = remote]
    /\ UNCHANGED <<cooldown, maxBatchSize, presubmits, jobs, queue, remote, decs, faults>>

\* The batch is trimmed and its descriptor built.
ComposeBatch ==
    /\ \E r \in {findMergeable(ws, queue, remote, 0)} :
        /\ ~TooFew(r.out)
        /\ \E batchPRs \in {Trim(r.out, maxBatchSize)} :
            /\ ws' = r.ws
            /\ tick' = [NoTick EXCEPT
                           !.op = "compose",
                           !.out = r.out,
                           !.batchPRs = batchPRs,
                           !.refs = makeBuildRefs(r.ws, OrgName, RepoName, batchPRs, {}),
                           !.content = remote]
    /\ UNCHANGED <<cooldown, maxBatchSize, presubmits, jobs, queue, remote, decs, faults>>

NextBatch == ComposeTooFew \/ ComposeBatch

SpecBatch == InitBatch /\ [][NextBatch]_vars

\* Merging the PRs of pulls one after another onto commit base meets no
\* conflict.
Replays(content, base, pulls) ==
    \A i \in 1..Len(pulls) :
        ~Conflicts(content, base \o SubSeq(pulls, 1, i - 1), pulls[i])

\* C18: the pulls of a descriptor the loop builds merge one after another
\* onto the descriptor's base without conflict, also when the batch branch
\* holds PRs the trim dropped.
C18_DescriptorReplays ==
    tick.op = "compose" =>
        Replays(tick.content, tick.refs.BaseSHA, PullNumbers(tick.refs))

\* Three PRs were accepted, the second merges only after the first, and
\* the trim kept the first two.
C18_Witness ==
    /\ tick.op = "compose"
    /\ Len(tick.out) = 3
    /\ maxBatchSize = 2
    /\ <<tick.out[1], tick.out[2]>> \in tick.content.needs
    /\ PullNumbers(tick.refs) = <<tick.out[1], tick.out[2]>>
    /\ ws.batch = MasterSHA \o tick.out

----------------------------------------------------------------------------
(* Properties of the cooldown counter (Spec) *)

\* C19: the cooldown counter stays in 0..5.  It changes only by a decrement
\* of one, in a tick whose listing succeeded with no incomplete batch job
\* while the counter was positive, or by being set to 5 in a tick that
\* reached the submission step.  A tick whose listing fails or holds an
\* incomplete batch job changes neither the counter nor the jobs.
C19_CooldownChanges ==
    [][/\ cooldown \in 0..5 /\ cooldown' \in 0..5
       /\ cooldown' # cooldown =>
              \/ /\ tick'.op = "cooldown"
                 /\ ~tick'.err /\ ~tick'.inFlight
                 /\ cooldown > 0
                 /\ cooldown' = cooldown - 1
              \/ /\ tick'.op = "submit"
                 /\ cooldown' = 5
       /\ tick'.op = "cooldown" => cooldown' = tick'.cooldownAt - 1
       /\ tick'.op = "submit" => cooldown' = 5
       /\ tick'.op = "waiting" => tick'.inFlight
       /\ tick'.op \in {"listError", "waiting"} =>
              /\ cooldown' = cooldown
              /\ jobs' = jobs]_vars

\* The last decrement of a cooldown: the jobs of the batch are complete and
\* the counter went from 1 to 0.
C19_Witness ==
    /\ tick.op = "cooldown"
    /\ tick.cooldownAt = 1
    /\ cooldown = 0
    /\ Len(jobs) = 2
    /\ \A i \in 1..Len(jobs) : jobs[i].Type = BatchJob /\ jobs[i].complete

----------------------------------------------------------------------------
(* The loop under fair ticking: at most MaxFaults calls fail, every batch  *)
(* job finishes, and the queue always holds three PRs that merge          *)
(* together.                                                               *)

\* The job backend keeps the newest MaxJobs jobs.
Retained(js) ==
    IF Len(js) > MaxJobs THEN SubSeq(js, Len(js) - MaxJobs + 1, Len(js)) ELSE js

\* The remote of every tick: all the PRs of the queue merge together.
LiveContents(q) == {c \in LoopContents(q) : c.base = {}}

InitLive ==
    /\ cooldown = 0
    /\ maxBatchSize \in {2, 5}
    /\ presubmits = SampleConfig
    /\ jobs = <<>>
    /\ ws = InitWS
    /\ queue = <<>>
    /\ remote = NoContent
    /\ tick = NoTick
    /\ decs = -1
    /\ faults = 0

\* kc.ListProwJobs fails.
LiveListError ==
    /\ faults < MaxFaults
    /\ faults' = faults + 1
    /\ tick' = [NoTick EXCEPT !.op = "listError", !.err = TRUE,
                              !.cooldownAt = cooldown, !.decsAt = decs]
    /\ UNCHANGED <<cooldown, maxBatchSize, presubmits, jobs, ws, queue, remote, decs>>

\* getQueuedPRs fails.
LiveQueueError ==
    /\ PastCooldown
    /\ faults < MaxFaults
    /\ faults' = faults + 1
    /\ tick' = [Began("queueError") EXCEPT !.err = TRUE]
    /\ UNCHANGED <<cooldown, maxBatchSize, presubmits, jobs, ws, queue, remote, decs>>

\* The tick reaches the submission step and no call fails.
LiveSubmit ==
    /\ PastCooldown
    /\ \E q \in LoopQueues : \E content \in LiveContents(q) :
       \E r \in {findMergeable(ws, q, content, 0)} :
        /\ ~TooFew(r.out)
        /\ \E batchPRs \in {Trim(r.out, maxBatchSize)} :
           \E refs \in {makeBuildRefs(r.ws, OrgName, RepoName, batchPRs, {})} :
           \E needed \in {neededPresubmits(presubmits, jobs, refs)} :
           \E attempted \in {Attempted(needed, refs)} :
            /\ jobs' = Retained(jobs \o attempted)
            /\ queue' = q
            /\ ws' = r.ws
            /\ tick' = [Began("submit") EXCEPT
                           !.out = r.out,
                           !.batchPRs = batchPRs,
                           !.refs = refs,
                           !.needed = needed,
                           !.attempted = attempted,
                           !.created = [i \in 1..Len(attempted) |-> i],
                           !.content = content,
                           !.mergingAt = ws.merging]
    /\ cooldown' = CooldownTicks
    /\ decs' = 0
    /\ UNCHANGED <<maxBatchSize, presubmits, remote, faults>>

\* One iteration of the loop.
LiveTick ==
    \/ LiveListError
    \/ TickWaiting
    \/ TickCooldown
    \/ LiveQueueError
    \/ TickMergeError
    \/ LiveSubmit

NextLive == LiveTick \/ JobFinishes

\* time.Tick keeps firing, and a job that is not complete finishes.
SpecLive ==
    /\ InitLive
    /\ [][NextLive]_vars
    /\ WF_vars(LiveTick)
    /\ WF_vars(JobFinishes)

\* C20: when calls fail only finitely often, every batch job finishes and
\* the queue always holds two PRs that merge together, the loop reaches
\* the submission step again and again.
C20_SubmitsAgain == []<>(tick.op = "submit")

\* A batch was submitted after a full cooldown, after the jobs of the
\* batch before it had finished and after the last failing call.
C20_Witness ==
    /\ tick.op = "submit"
    /\ tick.decsAt = 5
    /\ faults = MaxFaults
    /\ jobs # <<>>
    /\ cooldown = 5

====
